---- MODULE Spec2Model ----
(***************************************************************************)
(* A model of System::Process (sys_process.h): a controlling program that  *)
(* holds several Process handles, the operating system's process table and *)
(* descriptor tables, and the children the handles fork.                   *)
(***************************************************************************)
EXTENDS Integers, Sequences, FiniteSets, TLC

\* ---------------------------------------------------------------- bounds
NumHandles == 2
MaxPid == 2
MaxFd == 10
MaxStarts == 2
PipeCap == 3
MaxInput == 2
MaxStream == 3
MaxTimeout == 1

Handles == 1..NumHandles
Pids == 1..MaxPid
\* descriptor numbers pipe() can hand out: 0, 1 and 2 are the standard streams
Fds == 3..MaxFd

\* ------------------------------------------------------- channel ends
\* out_pipe_ is the command channel (controller -> child), in_pipe_ the
\* output channel (child -> controller); index 0 reads, index 1 writes.
Closed == [h |-> 0, ch |-> "none", side |-> "none"]
Tty == [h |-> 0, ch |-> "tty", side |-> "rw"]
End(h, ch, side) == [h |-> h, ch |-> ch, side |-> side]
Ends == {End(h, ch, side) : h \in Handles, ch \in {"cmd", "out"}, side \in {"r", "w"}}
Chans == Handles \X {"cmd", "out"}

NoProc == [st |-> "free", by |-> 0, image |-> "none", stdin |-> Closed,
           stdout |-> Closed, fdt |-> [f \in Fds |-> Closed]]

\* read(): where the call stands ("idle" when none runs), its handle and expected
\* prefix, the locals curr_line and revents, the caller's out_lines, how the last
\* call returned and why, the bytes the child has written to the handle's output
\* channel, and how the platform reports hang-up on a read end; the timeout the
\* caller passed and timeout_ms as line 217 leaves it, in clock ticks; the ticks
\* the poll() in progress has waited and the ticks the call has waited in all
\* (counted up to one past its timeout); the bytes the call has taken from the
\* channel; and the command of the round trip that SpecEcho runs
NoRead == [pc |-> "idle", h |-> 0, expected |-> << >>, curr_line |-> << >>,
           out_lines |-> << >>, revents |-> {}, ret |-> "none", end |-> "none",
           sent |-> << >>, os |-> "POLLHUP", timeout_arg |-> 0, timeout_ms |-> 0,
           waited |-> 0, elapsed |-> 0, got |-> << >>, cmd |-> << >>]

\* what an operation reports: its name and handle, how it returned ("throw" for
\* an exception), the pid it returned or worked on, the handle's lifecycle
\* before it, the children it signalled and reaped, those among them (or the
\* process group) that are not unreaped children of the handle, the channel ends
\* its close() calls closed, its string argument, the buffer it handed to write(), what write()
\* returned and the bytes it put on a channel
NoOp == [op |-> "none", h |-> 0, ret |-> "none", pid |-> 0, pre |-> "none",
         sig |-> {}, reaped |-> {}, others |-> {}, closed |-> {}, arg |-> << >>, line |-> << >>,
         wret |-> 0, wrote |-> << >>]

VARIABLES
    hst,        \* per handle: "none" (not constructed), "failed" (constructor threw),
                \* "live" (object exists), "gone" (destructor has run)
    forked_,    \* Process::forked_
    child_pid_, \* Process::child_pid_
    out_pipe_,  \* Process::out_pipe_  (pair of descriptor numbers)
    in_pipe_,   \* Process::in_pipe_
    fdt,        \* the controller's descriptor table: number -> channel end
    proc,       \* the controller's children: pid -> process
    pipe,       \* bytes in flight per channel
    starts,     \* per handle: how many times start() has run
    kids,       \* per handle: how many children its start() calls have forked
    ctrl,       \* the controller itself: "running" or "killed"
    lastOp,     \* the operation that produced this state, with what it returned
    rd          \* the read() call in progress or last returned, and the platform

vars == <<hst, forked_, child_pid_, out_pipe_, in_pipe_, fdt, proc, pipe,
          starts, kids, ctrl, lastOp, rd>>

\* ------------------------------------------------------------ helpers
\* The controller has one thread: it starts an operation when it is running
\* and no read() is in progress.
CtrlFree == ctrl = "running" /\ rd.pc = "idle"

FreeFds(t) == {f \in Fds : t[f] = Closed}
Lowest(S) == CHOOSE x \in S : \A y \in S : x <= y

\* the children of the controller that exist (running or not yet reaped)
Children == {p \in Pids : proc[p].st # "free"}
Zombies == {p \in Pids : proc[p].st = "zombie"}
\* the running children forked through handle h
LiveChildren(h) == {p \in Pids : proc[p].st = "running" /\ proc[p].by = h}
\* the children forked through handle h that are not yet reaped
Unreaped(h) == {p \in Pids : proc[p].st # "free" /\ proc[p].by = h}

InitBase ==
    /\ hst = [h \in Handles |-> "none"]
    /\ forked_ = [h \in Handles |-> FALSE]
    /\ child_pid_ = [h \in Handles |-> 0]
    /\ out_pipe_ = [h \in Handles |-> <<0, 0>>]
    /\ in_pipe_ = [h \in Handles |-> <<0, 0>>]
    /\ fdt = [f \in Fds |-> Closed]
    /\ proc = [p \in Pids |-> NoProc]
    /\ pipe = [c \in Chans |-> << >>]
    /\ starts = [h \in Handles |-> 0]
    /\ kids = [h \in Handles |-> 0]
    /\ ctrl = "running"
    /\ lastOp = NoOp

Init == InitBase /\ rd = NoRead

\* ------------------------------------------------- Process::Process
\* pipe(out_pipe_) then pipe(in_pipe_); each takes the two lowest free
\* descriptor numbers and fails when the table (or the system) has none.
Process(h, ok1, ok2) ==
    /\ CtrlFree
    /\ hst[h] = "none"
    /\ LET can1 == ok1 /\ Cardinality(FreeFds(fdt)) >= 2
           r1 == Lowest(FreeFds(fdt))
           w1 == Lowest(FreeFds(fdt) \ {r1})
           t1 == [fdt EXCEPT ![r1] = End(h, "cmd", "r"), ![w1] = End(h, "cmd", "w")]
           can2 == ok2 /\ Cardinality(FreeFds(t1)) >= 2
           r2 == Lowest(FreeFds(t1))
           w2 == Lowest(FreeFds(t1) \ {r2})
           t2 == [t1 EXCEPT ![r2] = End(h, "out", "r"), ![w2] = End(h, "out", "w")]
       IN  IF ~can1
           THEN /\ hst' = [hst EXCEPT ![h] = "failed"]
                /\ UNCHANGED <<fdt, out_pipe_, in_pipe_>>
                /\ lastOp' = [NoOp EXCEPT !.op = "Process", !.h = h, !.ret = "throw"]
           ELSE IF ~can2
           THEN /\ hst' = [hst EXCEPT ![h] = "failed"]
                /\ fdt' = t1
                /\ UNCHANGED <<out_pipe_, in_pipe_>>
                /\ lastOp' = [NoOp EXCEPT !.op = "Process", !.h = h, !.ret = "throw"]
           ELSE /\ hst' = [hst EXCEPT ![h] = "live"]
                /\ fdt' = t2
                /\ out_pipe_' = [out_pipe_ EXCEPT ![h] = <<r1, w1>>]
                /\ in_pipe_' = [in_pipe_ EXCEPT ![h] = <<r2, w2>>]
                /\ lastOp' = [NoOp EXCEPT !.op = "Process", !.h = h, !.ret = "ok"]
    /\ UNCHANGED <<forked_, child_pid_, proc, pipe, starts, kids, ctrl, rd>>

\* ---------------------------------------------------------- OS calls
\* close(fd) on a descriptor table: the number stops naming a channel end.
\* On a closed number it fails with EBADF and changes nothing.
CloseFd(t, fd) == [t EXCEPT ![fd] = Closed]

\* what the handle's lifecycle reads before an operation
Lifecycle(h) ==
    IF forked_[h] THEN "Running" ELSE IF kids[h] = 0 THEN "Unstarted" ELSE "Exited"

\* the outcomes of fork(): the pid of the new child, or -1
ForkOutcomes == {p \in Pids : proc[p].st = "free"} \cup {-1}

\* The child branch of start (lines 137-200), run on the child's own copy t of
\* the descriptor table.  Every step throws when its descriptor is closed; a
\* throw, or a failed execv, leaves the child running the controller's image.
ChildPath(t, h, execOk) ==
    LET o0 == out_pipe_[h][1]
        o1 == out_pipe_[h][2]
        i0 == in_pipe_[h][1]
        i1 == in_pipe_[h][2]
        fail(tt, sin, sout) ==
            [image |-> "ctrl", stdin |-> sin, stdout |-> sout, fdt |-> tt]
        t1 == CloseFd(t, o1)
        t2 == CloseFd(t1, i0)
        sin == t2[o0]
        t3 == CloseFd(t2, o0)
        sout == t3[i1]
        t4 == CloseFd(t3, i1)
    IN  IF t[o1] = Closed THEN fail(t, Tty, Tty)
        ELSE IF t1[i0] = Closed THEN fail(t1, Tty, Tty)
        ELSE IF t2[o0] = Closed THEN fail(t2, Tty, Tty)
        ELSE IF t3[i1] = Closed THEN fail(t3, sin, Tty)
        ELSE IF ~execOk THEN fail(t4, sin, sout)
        ELSE [image |-> "exec", stdin |-> sin, stdout |-> sout, fdt |-> t4]

\* ---------------------------------------------------- Process::start
\* r is what fork() returns to the controller.  Any non-zero r, -1 included,
\* takes the parent branch.
start(h, r, execOk) ==
    /\ CtrlFree
    /\ hst[h] = "live"
    /\ starts[h] < MaxStarts
    /\ r \in ForkOutcomes
    /\ LET o0 == out_pipe_[h][1]
           i1 == in_pipe_[h][2]
           c == ChildPath(fdt, h, execOk)
       IN  /\ proc' = IF r > 0
                      THEN [proc EXCEPT ![r] = [st |-> "running", by |-> h,
                                 image |-> c.image, stdin |-> c.stdin,
                                 stdout |-> c.stdout, fdt |-> c.fdt]]
                      ELSE proc
           /\ fdt' = CloseFd(CloseFd(fdt, o0), i1)
           /\ lastOp' = [NoOp EXCEPT !.op = "start", !.h = h, !.ret = "return",
                            !.pid = r, !.pre = Lifecycle(h),
                            !.closed = {fdt[f] : f \in {o0, i1}} \ {Closed}]
    /\ child_pid_' = [child_pid_ EXCEPT ![h] = r]
    /\ forked_' = [forked_ EXCEPT ![h] = TRUE]
    /\ starts' = [starts EXCEPT ![h] = @ + 1]
    /\ kids' = [kids EXCEPT ![h] = IF r > 0 THEN @ + 1 ELSE @]
    /\ UNCHANGED <<hst, out_pipe_, in_pipe_, pipe, ctrl, rd>>

\* ------------------------------------------------------ the children
\* A running child terminates by itself (exit, crash, uncaught exception):
\* its descriptors close and it stays in the process table until reaped.
ChildExit(p) ==
    /\ proc[p].st = "running"
    /\ proc' = [proc EXCEPT ![p] = [NoProc EXCEPT !.st = "zombie", !.by = proc[p].by]]
    /\ lastOp' = [NoOp EXCEPT !.op = "exit", !.pid = p]
    /\ UNCHANGED <<hst, forked_, child_pid_, out_pipe_, in_pipe_, fdt, pipe,
                   starts, kids, ctrl, rd>>

\* waitpid(pid, &status, WNOHANG), the EINTR retries included: 0 when the
\* children asked for are all running, the pid of a terminated one (which it
\* reaps), -1 (ECHILD) when there is none.  pid 0 and pid -1 ask for any child
\* (the children stay in the controller's process group).
WaitOutcomes(pid) ==
    IF pid > 0
    THEN IF proc[pid].st = "running" THEN {0}
         ELSE IF proc[pid].st = "zombie" THEN {pid} ELSE {-1}
    ELSE IF Children = {} THEN {-1}
         ELSE IF Zombies # {} THEN Zombies ELSE {0}

\* the process table after the reap that a wait returning r performed
Reap(pr, r) == IF r > 0 THEN [pr EXCEPT ![r] = NoProc] ELSE pr

\* ------------------------------------------------- Process::is_alive
\* r is what waitpid(child_pid_, &status, WNOHANG) returns.
is_alive_ret(h, r) ==
    IF r = 0 THEN "true"
    ELSE IF r = -1 \/ r = child_pid_[h] THEN "false" ELSE "throw"

is_alive(h, r) ==
    /\ CtrlFree
    /\ hst[h] = "live"
    /\ r \in WaitOutcomes(child_pid_[h])
    /\ proc' = Reap(proc, r)
    /\ IF is_alive_ret(h, r) = "false"
       THEN /\ forked_' = [forked_ EXCEPT ![h] = FALSE]
            /\ child_pid_' = [child_pid_ EXCEPT ![h] = 0]
       ELSE UNCHANGED <<forked_, child_pid_>>
    /\ lastOp' = [NoOp EXCEPT !.op = "is_alive", !.h = h, !.ret = is_alive_ret(h, r),
                     !.pid = child_pid_[h], !.pre = Lifecycle(h),
                     !.reaped = IF r > 0 THEN {r} ELSE {}]
    /\ UNCHANGED <<hst, out_pipe_, in_pipe_, fdt, pipe, starts, kids, ctrl, rd>>

\* --------------------------------------------------- Process::kill_
\* kill(pid, SIGKILL): the running children the signal reaches.  pid -1 is
\* every process the controller may signal, pid 0 its whole process group.
Signalled(pid) ==
    IF pid > 0 THEN {p \in {pid} : proc[p].st = "running"}
    ELSE {p \in Pids : proc[p].st = "running"}

\* the process table once the children in S are killed: each closes its
\* descriptors and waits to be reaped
Killed(pr, S) ==
    [p \in Pids |-> IF p \in S THEN [NoProc EXCEPT !.st = "zombie", !.by = pr[p].by]
                    ELSE pr[p]]

\* wait(NULL): blocks until some child has terminated and reaps it, whichever
\* child of the controller that is; -1 (ECHILD) when there is no child
WaitAnyOutcomes(pr) ==
    IF \A p \in Pids : pr[p].st = "free" THEN {-1}
    ELSE {p \in Pids : pr[p].st = "zombie"}

\* kill_(child_pid_), lines 42-72: r is what waitpid(pid, &status, WNOHANG)
\* returns and w what wait(NULL) returns.  The handle's fields are not written.
kill_body(op, h) ==
    LET pid == child_pid_[h]
        again == lastOp.op = "kill_" /\ lastOp.h = h
        own == Unreaped(h)
        group == IF pid <= 0 THEN {pid} ELSE {}
        rep == [NoOp EXCEPT !.op = op, !.h = h, !.ret = "return", !.pid = pid,
                   !.pre = IF again THEN "again" ELSE Lifecycle(h)]
    IN  IF ~forked_[h]
        THEN /\ UNCHANGED proc
             /\ lastOp' = rep
        ELSE \E r \in WaitOutcomes(pid) :
               IF r = 0
               THEN LET k == Killed(proc, Signalled(pid))
                    IN  \E w \in WaitAnyOutcomes(k) :
                          /\ proc' = Reap(k, w)
                          /\ lastOp' = [rep EXCEPT !.sig = Signalled(pid),
                                           !.reaped = IF w > 0 THEN {w} ELSE {},
                                           !.others = ((Signalled(pid) \cup
                                               (IF w > 0 THEN {w} ELSE {})) \ own)
                                               \cup group]
               ELSE /\ proc' = Reap(proc, r)
                    /\ lastOp' = [rep EXCEPT !.reaped = IF r > 0 THEN {r} ELSE {},
                                     !.others = IF r > 0 THEN {r} \ own ELSE {}]

\* an explicit call of the kill procedure on the handle's child
kill_(h) ==
    /\ CtrlFree
    /\ hst[h] = "live"
    /\ kill_body("kill_", h)
    /\ UNCHANGED <<hst, forked_, child_pid_, out_pipe_, in_pipe_, fdt, pipe,
                   starts, kids, ctrl, rd>>

\* ------------------------------------------------ Process::~Process
\* The destructor runs kill_(child_pid_) and nothing else: the descriptors
\* stay open in the controller.
Process_dtor(h) ==
    /\ CtrlFree
    /\ hst[h] = "live"
    /\ kill_body("~Process", h)
    /\ hst' = [hst EXCEPT ![h] = "gone"]
    /\ UNCHANGED <<forked_, child_pid_, out_pipe_, in_pipe_, fdt, pipe,
                   starts, kids, ctrl, rd>>

\* ---------------------------------------------- Process::send_command
\* the bytes of a command: the characters the model sends, and '\n'
NL == "\n"
NUL == "NUL"
Chars == {"a", NL}
StringsUpTo(n) == UNION {[1..k -> Chars] : k \in 0..n}

\* s[i] of a std::string, i counted from 0: the character, or the terminating
\* null character at i = s.size()
CharAt(s, i) == IF i < Len(s) THEN s[i + 1] ELSE NUL

\* lines 285-287: the command as it is handed to write()
Terminated(input) ==
    IF CharAt(input, Len(input)) # NL THEN input \o <<NL>> ELSE input

\* the processes that hold the read end of channel <<h, ch>> open
Readers(h, ch) ==
    LET e == End(h, ch, "r")
    IN  {0 : f \in {f \in Fds : fdt[f] = e}} \cup
        {p \in Pids : /\ proc[p].st = "running"
                      /\ \/ proc[p].stdin = e
                         \/ proc[p].stdout = e
                         \/ \E f \in Fds : proc[p].fdt[f] = e}

\* write(fd, line, size) by the controller: -1 on a descriptor that is not an
\* open write end or on an interrupted or failed write, otherwise the number
\* of bytes delivered, at most what the channel has room for
WriteOutcomes(fd, line) ==
    LET e == fdt[fd]
    IN  IF e.side # "w" THEN {-1}
        ELSE {-1} \cup {n \in 1..Len(line) : Len(pipe[<<e.h, e.ch>>]) + n <= PipeCap}

\* r is what the waitpid of is_alive() returns, n what write() returns.  A write
\* on a channel nobody reads raises SIGPIPE, whose default action (the program
\* installs no handler) ends the controller.
send_command(h, r, input, n) ==
    /\ CtrlFree
    /\ hst[h] = "live"
    /\ r \in WaitOutcomes(child_pid_[h])
    /\ proc' = Reap(proc, r)
    /\ IF is_alive_ret(h, r) = "false"
       THEN /\ forked_' = [forked_ EXCEPT ![h] = FALSE]
            /\ child_pid_' = [child_pid_ EXCEPT ![h] = 0]
       ELSE UNCHANGED <<forked_, child_pid_>>
    /\ LET line == Terminated(input)
           fd == out_pipe_[h][2]
           e == fdt[fd]
           rep == [NoOp EXCEPT !.op = "send_command", !.h = h, !.pid = child_pid_[h],
                      !.pre = Lifecycle(h), !.arg = input,
                      !.reaped = IF r > 0 THEN {r} ELSE {}]
       IN  IF is_alive_ret(h, r) # "true"
           THEN /\ n = -1
                /\ lastOp' = [rep EXCEPT !.ret = "throw"]
                /\ UNCHANGED <<pipe, ctrl>>
           ELSE IF e.side = "w" /\ Readers(e.h, e.ch) = {}
           THEN /\ n = -1
                /\ ctrl' = "killed"
                /\ lastOp' = [rep EXCEPT !.ret = "killed", !.line = line, !.wret = n]
                /\ UNCHANGED pipe
           ELSE /\ n \in WriteOutcomes(fd, line)
                /\ IF n = -1
                   THEN /\ lastOp' = [rep EXCEPT !.ret = "throw", !.line = line,
                                         !.wret = n]
                        /\ UNCHANGED pipe
                   ELSE /\ pipe' = [pipe EXCEPT ![<<e.h, e.ch>>] = @ \o SubSeq(line, 1, n)]
                        /\ lastOp' = [rep EXCEPT !.ret = "return", !.line = line,
                                         !.wret = n, !.wrote = SubSeq(line, 1, n)]
                /\ UNCHANGED ctrl
    /\ UNCHANGED <<hst, out_pipe_, in_pipe_, fdt, starts, kids, rd>>

\* A child whose image was replaced reads what is waiting on its standard input.
ChildRead(p) ==
    /\ proc[p].st = "running"
    /\ proc[p].image = "exec"
    /\ proc[p].stdin.side = "r"
    /\ pipe[<<proc[p].stdin.h, proc[p].stdin.ch>>] # << >>
    /\ pipe' = [pipe EXCEPT ![<<proc[p].stdin.h, proc[p].stdin.ch>>] = << >>]
    /\ lastOp' = [NoOp EXCEPT !.op = "child_read", !.pid = p]
    /\ UNCHANGED <<hst, forked_, child_pid_, out_pipe_, in_pipe_, fdt, proc,
                   starts, kids, ctrl, rd>>

\* the commands the controller sends in Spec, where the handles' lifecycles vary
CmdInputs == {<<"a">>}
\* the commands it sends in SpecSend, where the command line varies
SendInputs == StringsUpTo(MaxInput)

\* ----------------------------------------------------- Process::read
\* sizeof(buffer), line 214
BufSize == 1024
\* how a platform reports a read end whose write ends are all closed (the
\* comment of lines 238-246)
OsKinds == {"POLLHUP", "POLLIN|POLLHUP", "POLLIN"}
\* fds.events, line 219
EventsMask == {"POLLIN"}
\* the expected prefixes read() is called with: none, or "a"
Expecteds == {<< >>, <<"a">>}
\* the timeouts read() is called with, in clock ticks; 0 is the default argument
Timeouts == 0..MaxTimeout
\* line 17, in clock ticks: longer than every timeout a caller passes
MAX_TIMEOUT_MS == MaxTimeout + 1
\* line 217: timeout_ms as poll() gets it
Normalised(timeout_ms) == IF timeout_ms <= 0 THEN MAX_TIMEOUT_MS ELSE timeout_ms

\* the processes that hold the write end of channel <<h, ch>> open
Writers(h, ch) ==
    LET e == End(h, ch, "w")
    IN  {0 : f \in {f \in Fds : fdt[f] = e}} \cup
        {p \in Pids : /\ proc[p].st = "running"
                      /\ \/ proc[p].stdin = e
                         \/ proc[p].stdout = e
                         \/ \E f \in Fds : proc[p].fdt[f] = e}

\* what poll() reports for descriptor fd with events = POLLIN; {} when the
\* descriptor is not ready, so that poll() waits
PollRevents(fd) ==
    LET e == fdt[fd]
        data == pipe[<<e.h, e.ch>>] # << >>
        hup == Writers(e.h, e.ch) = {}
    IN  IF e = Closed THEN {"POLLNVAL"}
        ELSE IF e.side # "r" THEN {}
        ELSE IF data
             THEN IF hup /\ rd.os # "POLLIN" THEN {"POLLIN", "POLLHUP"} ELSE {"POLLIN"}
        ELSE IF hup
             THEN IF rd.os = "POLLHUP" THEN {"POLLHUP"}
                  ELSE IF rd.os = "POLLIN" THEN {"POLLIN"} ELSE {"POLLIN", "POLLHUP"}
        ELSE {}

\* curr_line.rfind(expected, 0) != npos: curr_line starts with expected
StartsWith(line, expected) ==
    Len(expected) <= Len(line) /\ SubSeq(line, 1, Len(expected)) = expected

\* a scan that returns every completed line, the empty ones too
RECURSIVE ScanKeepingEmpty(_, _, _, _)
ScanKeepingEmpty(cl, ol, chunk, expected) ==
    IF chunk = << >> THEN [curr_line |-> cl, out_lines |-> ol, found |-> FALSE]
    ELSE IF Head(chunk) = NL
         THEN IF expected # << >> /\ StartsWith(cl, expected)
              THEN [curr_line |-> cl, out_lines |-> Append(ol, cl), found |-> TRUE]
              ELSE ScanKeepingEmpty(<< >>, Append(ol, cl), Tail(chunk), expected)
         ELSE ScanKeepingEmpty(Append(cl, Head(chunk)), ol, Tail(chunk), expected)

\* the for loop of lines 259-272 over the bytes of one chunk
RECURSIVE Scan(_, _, _, _)
Scan(cl, ol, chunk, expected) ==
    IF chunk = << >> THEN [curr_line |-> cl, out_lines |-> ol, found |-> FALSE]
    ELSE IF Head(chunk) = NL
         THEN IF cl = << >> THEN Scan(cl, ol, Tail(chunk), expected)
              ELSE IF expected # << >> /\ StartsWith(cl, expected)
                   THEN [curr_line |-> cl, out_lines |-> Append(ol, cl), found |-> TRUE]
                   ELSE Scan(<< >>, Append(ol, cl), Tail(chunk), expected)
         ELSE Scan(Append(cl, Head(chunk)), ol, Tail(chunk), expected)

\* a return that drops the pending partial line
FlushedNothing(ol, cl) == ol

\* out_lines once a pending partial line is flushed (lines 233-234, 254-255)
Flushed(ol, cl) == IF cl # << >> THEN Append(ol, cl) ELSE ol

\* a read() that returns false whenever it found no expected line
ReadRetFalse(end, expected) == IF end = "match" THEN "true" ELSE "false"

\* what the call returns when it ends by a timeout, by end-of-file or by a
\* line that starts with the expected prefix (lines 235 and 277, 256, 267)
ReadRet(end, expected) ==
    IF end = "match" THEN "true"
    ELSE IF end = "eof" THEN "false"
    ELSE IF expected = << >> THEN "true" ELSE "false"

\* lines 209-219: the call clears out_lines, replaces a timeout that is not
\* positive and enters the loop
read(h, expected, timeout_ms) ==
    /\ CtrlFree
    /\ hst[h] = "live"
    /\ rd' = [rd EXCEPT !.pc = "poll", !.h = h, !.expected = expected,
                 !.curr_line = << >>, !.out_lines = << >>, !.revents = {},
                 !.ret = "none", !.end = "none", !.timeout_arg = timeout_ms,
                 !.timeout_ms = Normalised(timeout_ms), !.waited = 0,
                 !.elapsed = 0, !.got = << >>]
    /\ lastOp' = [NoOp EXCEPT !.op = "read", !.h = h]
    /\ UNCHANGED <<hst, forked_, child_pid_, out_pipe_, in_pipe_, fdt, proc, pipe,
                   starts, kids, ctrl>>

\* poll(&fds, 1, timeout_ms), line 223: the wait in progress has lasted the
\* timeout it was given
Expired == rd.waited >= rd.timeout_ms

\* a clock tick passes while poll() waits for a descriptor that is not ready
Tick ==
    /\ ctrl = "running"
    /\ rd.pc = "poll"
    /\ PollRevents(in_pipe_[rd.h][1]) = {}
    /\ ~Expired
    /\ rd' = [rd EXCEPT !.waited = @ + 1,
                 !.elapsed = IF @ <= rd.timeout_ms THEN @ + 1 ELSE @]
    /\ lastOp' = [NoOp EXCEPT !.op = "read", !.h = rd.h]
    /\ UNCHANGED <<hst, forked_, child_pid_, out_pipe_, in_pipe_, fdt, proc, pipe,
                   starts, kids, ctrl>>

\* lines 223-225: a signal interrupts poll() (EINTR) after it has waited for a
\* while, and the loop calls it again with the same timeout_ms
PollEintr ==
    /\ ctrl = "running"
    /\ rd.pc = "poll"
    /\ rd.waited > 0
    /\ rd' = [rd EXCEPT !.waited = 0]
    /\ lastOp' = [NoOp EXCEPT !.op = "read", !.h = rd.h]
    /\ UNCHANGED <<hst, forked_, child_pid_, out_pipe_, in_pipe_, fdt, proc, pipe,
                   starts, kids, ctrl>>

\* lines 223-236: poll() returns with events, or it times out while the
\* descriptor is not ready
Poll ==
    /\ ctrl = "running"
    /\ rd.pc = "poll"
    /\ LET ev == PollRevents(in_pipe_[rd.h][1])
       IN  IF ev # {}
           THEN rd' = [rd EXCEPT !.pc = "ready", !.revents = ev]
           ELSE /\ Expired
                /\ rd' = [rd EXCEPT !.pc = "idle", !.revents = {},
                             !.out_lines = Flushed(rd.out_lines, rd.curr_line),
                             !.ret = ReadRet("timeout", rd.expected),
                             !.end = "timeout"]
    /\ lastOp' = [NoOp EXCEPT !.op = "read", !.h = rd.h]
    /\ UNCHANGED <<hst, forked_, child_pid_, out_pipe_, in_pipe_, fdt, proc, pipe,
                   starts, kids, ctrl>>

\* lines 227-230: poll() fails with an error other than EINTR
PollFail ==
    /\ ctrl = "running"
    /\ rd.pc = "poll"
    /\ rd' = [rd EXCEPT !.pc = "idle", !.revents = {}, !.ret = "throw", !.end = "error"]
    /\ lastOp' = [NoOp EXCEPT !.op = "read", !.h = rd.h, !.ret = "throw"]
    /\ UNCHANGED <<hst, forked_, child_pid_, out_pipe_, in_pipe_, fdt, proc, pipe,
                   starts, kids, ctrl>>

\* lines 247-273: the test on the events, the ::read of one chunk and its scan
Dispatch ==
    /\ ctrl = "running"
    /\ rd.pc = "ready"
    /\ LET fd == in_pipe_[rd.h][1]
           c == <<fdt[fd].h, fdt[fd].ch>>
           n == IF Len(pipe[c]) < BufSize THEN Len(pipe[c]) ELSE BufSize
           chunk == SubSeq(pipe[c], 1, n)
           sc == Scan(rd.curr_line, rd.out_lines, chunk, rd.expected)
       IN  IF "POLLIN" \in rd.revents \/ "POLLHUP" \in EventsMask
           THEN IF n = 0
                THEN /\ rd' = [rd EXCEPT !.pc = "idle", !.revents = {},
                                  !.out_lines = Flushed(rd.out_lines, rd.curr_line),
                                  !.ret = ReadRet("eof", rd.expected),
                                  !.end = "eof"]
                     /\ UNCHANGED pipe
                ELSE /\ pipe' = [pipe EXCEPT ![c] = SubSeq(@, n + 1, Len(@))]
                     /\ IF sc.found
                        THEN rd' = [rd EXCEPT !.pc = "idle", !.revents = {},
                                       !.curr_line = sc.curr_line,
                                       !.out_lines = sc.out_lines,
                                       !.got = @ \o chunk,
                                       !.ret = ReadRet("match", rd.expected),
                                       !.end = "match"]
                        ELSE rd' = [rd EXCEPT !.pc = "poll", !.revents = {},
                                       !.curr_line = sc.curr_line,
                                       !.out_lines = sc.out_lines,
                                       !.got = @ \o chunk, !.waited = 0]
           ELSE /\ rd' = [rd EXCEPT !.pc = "poll", !.revents = {}, !.waited = 0]
                /\ UNCHANGED pipe
    /\ lastOp' = [NoOp EXCEPT !.op = "read", !.h = rd.h]
    /\ UNCHANGED <<hst, forked_, child_pid_, out_pipe_, in_pipe_, fdt, proc,
                   starts, kids, ctrl>>

\* A child that echoes its standard input to its standard output, as the
\* program of a round trip does: it moves the first n bytes that wait on the
\* one to the other.
ChildEcho(p, n) ==
    /\ proc[p].st = "running"
    /\ proc[p].image = "exec"
    /\ proc[p].stdin.side = "r"
    /\ proc[p].stdout.side = "w"
    /\ LET cin == <<proc[p].stdin.h, proc[p].stdin.ch>>
           cout == <<proc[p].stdout.h, proc[p].stdout.ch>>
           bytes == SubSeq(pipe[cin], 1, n)
       IN  /\ n \in 1..Len(pipe[cin])
           /\ Len(pipe[cout]) + n <= PipeCap
           /\ Len(rd.sent) + n <= MaxStream
           /\ pipe' = [pipe EXCEPT ![cin] = SubSeq(@, n + 1, Len(@)),
                                   ![cout] = @ \o bytes]
           /\ rd' = [rd EXCEPT !.sent = @ \o bytes]
    /\ lastOp' = [NoOp EXCEPT !.op = "child_echo", !.pid = p]
    /\ UNCHANGED <<hst, forked_, child_pid_, out_pipe_, in_pipe_, fdt, proc,
                   starts, kids, ctrl>>

\* the bytes a child writes to its standard output
OutChars == {"a", "b", NL}
OutStrings(n) == UNION {[1..k -> OutChars] : k \in 0..n}

\* A child whose image was replaced writes bytes to its standard output.
ChildWrite(p, bytes) ==
    /\ proc[p].st = "running"
    /\ proc[p].image = "exec"
    /\ proc[p].stdout.side = "w"
    /\ bytes # << >>
    /\ LET c == <<proc[p].stdout.h, proc[p].stdout.ch>>
       IN  /\ Readers(c[1], c[2]) # {}
           /\ Len(pipe[c]) + Len(bytes) <= PipeCap
           /\ Len(rd.sent) + Len(bytes) <= MaxStream
           /\ pipe' = [pipe EXCEPT ![c] = @ \o bytes]
           /\ rd' = [rd EXCEPT !.sent = @ \o bytes]
    /\ lastOp' = [NoOp EXCEPT !.op = "child_write", !.pid = p]
    /\ UNCHANGED <<hst, forked_, child_pid_, out_pipe_, in_pipe_, fdt, proc,
                   starts, kids, ctrl>>

\* Several handles and their children: every interleaving of construction,
\* start, is_alive, kill_, send_command (one short command, written whole or
\* not at all), destruction and the children's own steps.  read() writes only
\* its own locals and the output channel; SpecRead covers it.
Next ==
    \/ \E h \in Handles, ok1, ok2 \in BOOLEAN : Process(h, ok1, ok2)
    \/ \E h \in Handles, execOk \in BOOLEAN : \E r \in ForkOutcomes : start(h, r, execOk)
    \/ \E p \in Pids : ChildExit(p)
    \/ \E h \in Handles : \E r \in WaitOutcomes(child_pid_[h]) : is_alive(h, r)
    \/ \E h \in Handles : kill_(h)
    \/ \E h \in Handles : Process_dtor(h)
    \/ \E h \in Handles, input \in CmdInputs :
          \E r \in WaitOutcomes(child_pid_[h]), n \in {-1, Len(Terminated(input))} :
             send_command(h, r, input, n)
    \/ \E p \in Pids : ChildRead(p)

Spec == Init /\ [][Next]_vars

\* One handle, every command up to MaxInput characters and every outcome of
\* write(), short writes included.
NextSend ==
    \/ \E ok1, ok2 \in BOOLEAN : Process(1, ok1, ok2)
    \/ \E execOk \in BOOLEAN : \E r \in ForkOutcomes : start(1, r, execOk)
    \/ \E p \in Pids : ChildExit(p)
    \/ \E input \in SendInputs :
          \E r \in WaitOutcomes(child_pid_[1]), n \in -1..(MaxInput + 1) :
             send_command(1, r, input, n)
    \/ \E p \in Pids : ChildRead(p)

SpecSend == Init /\ [][NextSend]_vars

\* One handle, its child writing to the output channel, and read() on every
\* platform's way of reporting hang-up; poll() is not interrupted and every call
\* passes the same timeout (SpecTime varies both).
InitRead == InitBase /\ rd \in {[NoRead EXCEPT !.os = k] : k \in OsKinds}

ReadLoop == Poll \/ Dispatch

NextRead ==
    \/ \E ok1, ok2 \in BOOLEAN : Process(1, ok1, ok2)
    \/ \E execOk \in BOOLEAN : \E r \in ForkOutcomes : start(1, r, execOk)
    \/ \E p \in Pids : ChildExit(p)
    \/ \E p \in Pids, bytes \in StringsUpTo(MaxStream) : ChildWrite(p, bytes)
    \/ \E expected \in Expecteds : read(1, expected, MaxTimeout)
    \/ Tick
    \/ Poll
    \/ PollFail
    \/ Dispatch

SpecRead == InitRead /\ [][NextRead]_vars

\* The controller's thread keeps running and time passes: a read() in progress
\* takes its next step and a poll() that waits sees the clock advance.
SpecReadFair == SpecRead /\ WF_vars(ReadLoop) /\ WF_vars(Tick)

\* The content of what read() returns: one handle whose constructor, fork and
\* exec succeed, started once; a child that writes every stream of up to
\* MaxStream bytes over two letters and the newline, byte by byte, so that
\* read() takes it in every fragmentation, and that may exit; and read() with
\* and without an expected prefix on every platform.
NextLines ==
    \/ Process(1, TRUE, TRUE)
    \/ starts[1] = 0 /\ start(1, 1, TRUE)
    \/ \E p \in Pids : ChildExit(p)
    \/ \E p \in Pids, bytes \in OutStrings(1) : ChildWrite(p, bytes)
    \/ \E expected \in Expecteds : read(1, expected, MaxTimeout)
    \/ Tick
    \/ Poll
    \/ Dispatch

SpecLines == InitRead /\ [][NextLines]_vars

\* The time read() takes: every timeout argument, the default included, a child
\* that writes one byte at a time, and poll() interrupted by signals.
InitTime == InitBase /\ rd = [NoRead EXCEPT !.os = "POLLIN|POLLHUP"]

NextTime ==
    \/ Process(1, TRUE, TRUE)
    \/ \E r \in ForkOutcomes : start(1, r, TRUE)
    \/ \E p \in Pids : ChildExit(p)
    \/ \E p \in Pids : ChildWrite(p, <<"a">>)
    \/ \E timeout_ms \in Timeouts : read(1, << >>, timeout_ms)
    \/ Tick
    \/ PollEintr
    \/ Poll
    \/ Dispatch

SpecTime == InitTime /\ [][NextTime]_vars

\* The round trip: a handle is constructed and started once, with an echoing
\* child; the controller sends the command chosen at the start, once, and when
\* send_command has returned with bytes delivered it calls read() without an
\* expected prefix.  The timeout is longer than the child's response time: the
\* clock does not advance while input waits for the child.
InitEcho ==
    /\ InitBase
    /\ rd \in {[NoRead EXCEPT !.os = k, !.cmd = c] : k \in OsKinds, c \in SendInputs}

Delivered == pipe[<<1, "cmd">>] # << >> \/ rd.sent # << >>

NextEcho ==
    \/ Process(1, TRUE, TRUE)
    \/ \E r \in ForkOutcomes : r > 0 /\ starts[1] = 0 /\ start(1, r, TRUE)
    \/ /\ lastOp.op = "start"
       /\ \E r \in WaitOutcomes(child_pid_[1]), n \in -1..(MaxInput + 1) :
             send_command(1, r, rd.cmd, n)
    \/ \E p \in Pids, n \in 1..PipeCap : ChildEcho(p, n)
    \/ /\ Delivered
       /\ rd.end = "none"
       /\ \E timeout_ms \in Timeouts : read(1, << >>, timeout_ms)
    \/ pipe[<<1, "cmd">>] = << >> /\ Tick
    \/ Poll
    \/ Dispatch

SpecEcho == InitEcho /\ [][NextEcho]_vars

\* ============================================================ claims

\* C1: is_alive() on a handle returns false if and only if the handle has no
\* running child (its child has terminated or it was never started), and it does
\* not return true while the handle's lifecycle reads Unstarted or Exited, that
\* is once a prior call has confirmed the child dead and no start has followed.
C1_LivenessConsistent ==
    lastOp.op = "is_alive" =>
        /\ (lastOp.ret = "false") <=> (LiveChildren(lastOp.h) = {})
        /\ lastOp.pre # "Running" => lastOp.ret # "true"

\* C2: once every write end of the handle's output channel is closed, a read()
\* in progress eventually returns.
C2_ReadReturnsAfterHangUp ==
    (rd.pc # "idle" /\ Writers(rd.h, "out") = {}) ~> (rd.pc = "idle")

\* C3: once a handle's destructor has run, no child forked through the handle
\* is still running or terminated but unreaped.
C3_NoChildAfterDestructor ==
    \A h \in Handles : hst[h] = "gone" => Unreaped(h) = {}

\* C4: the kill procedure invoked right after itself on the same handle, or on
\* a handle that was never started, signals nothing and reaps nothing, and the
\* pid it worked on names no child of the controller afterwards.
C4_KillIdempotent ==
    (lastOp.op \in {"kill_", "~Process"} /\ lastOp.pre \in {"again", "Unstarted"}) =>
        /\ lastOp.ret = "return"
        /\ lastOp.sig = {}
        /\ lastOp.reaped = {}
        /\ lastOp.pid > 0 => proc[lastOp.pid].st = "free"

\* C5: a start on an Unstarted handle whose fork fails is reported as a failure
\* and leaves the handle Unstarted: forked_ false, no pid, no descriptor closed.
C5_ForkFailureLeavesUnstarted ==
    (lastOp.op = "start" /\ lastOp.pid = -1 /\ lastOp.pre = "Unstarted") =>
        /\ lastOp.ret = "throw"
        /\ ~forked_[lastOp.h]
        /\ child_pid_[lastOp.h] = 0
        /\ lastOp.closed = {}

\* C6: a start on an Exited handle (its child exited and is_alive() returned
\* false) that forks a child gives that child the read end of the handle's
\* command channel as standard input and the write end of its output channel
\* as standard output.
C6_RestartRewiresChannels ==
    (lastOp.op = "start" /\ lastOp.pre = "Exited" /\ lastOp.pid > 0) =>
        /\ proc[lastOp.pid].stdin = End(lastOp.h, "cmd", "r")
        /\ proc[lastOp.pid].stdout = End(lastOp.h, "out", "w")

\* C7: at most one running child forked through a handle exists, and it is the
\* child the handle tracks.
C7_AtMostOneLiveChild ==
    \A h \in Handles :
        /\ Cardinality(LiveChildren(h)) <= 1
        /\ LiveChildren(h) \subseteq {child_pid_[h]}

\* C8: send_command on a handle with no running child throws and puts no byte
\* on a channel.
C8_SendNeedsLiveChild ==
    (lastOp.op = "send_command" /\ LiveChildren(lastOp.h) = {}) =>
        /\ lastOp.ret = "throw"
        /\ lastOp.wrote = << >>

\* C9: the buffer send_command hands to write() is the input when the input
\* ends with a newline, and the input followed by one newline otherwise.
C9_NewlineOnlyIfOmitted ==
    (lastOp.op = "send_command" /\ lastOp.line # << >>) =>
        lastOp.line = IF lastOp.arg # << >> /\ lastOp.arg[Len(lastOp.arg)] = NL
                      THEN lastOp.arg
                      ELSE lastOp.arg \o <<NL>>

\* C10: when write() fails or delivers fewer bytes than the command line holds,
\* send_command does not return normally.
C10_ShortWriteIsAnError ==
    (lastOp.op = "send_command" /\ lastOp.line # << >>
        /\ lastOp.wret < Len(lastOp.line)) =>
        lastOp.ret # "return"
\* C11: a forked child either has replaced its image or has terminated: no
\* child is running the controller's image, which is where a child is once an
\* exception has left start in it.
C11_ChildNeverRunsController ==
    \A p \in Pids : proc[p].st = "running" => proc[p].image = "exec"
\* C17: after a start that forked a child, the controller holds, of the
\* handle's four channel ends, the write end of the command channel and the
\* read end of the output channel only; the child has the other two as
\* standard input and standard output and holds no further descriptor of the
\* handle; and the two close() calls of the parent branch each closed an open
\* descriptor of the handle: the read end of its command channel and the write
\* end of its output channel.
C17_StartLeavesTwoEndsEach ==
    (lastOp.op = "start" /\ lastOp.pid > 0) =>
        LET h == lastOp.h
            mine == {e \in Ends : e.h = h}
        IN  /\ {fdt[f] : f \in Fds} \cap mine = {End(h, "cmd", "w"), End(h, "out", "r")}
            /\ proc[lastOp.pid].stdin = End(h, "cmd", "r")
            /\ proc[lastOp.pid].stdout = End(h, "out", "w")
            /\ {proc[lastOp.pid].fdt[f] : f \in Fds} \cap mine = {}
            /\ lastOp.closed = {End(h, "cmd", "r"), End(h, "out", "w")}

\* C18: when is_alive() has returned false, or the kill procedure has reaped or
\* signalled the child the handle tracks, the handle's forked_ flag is false
\* and its child_pid_ is 0.
C18_TerminationClearsFields ==
    (\/ lastOp.op = "is_alive" /\ lastOp.ret = "false"
     \/ lastOp.op = "kill_" /\ lastOp.pid \in lastOp.sig \cup lastOp.reaped) =>
        /\ ~forked_[lastOp.h]
        /\ child_pid_[lastOp.h] = 0

\* C19: the kill procedure run by the destructor signals and reaps nothing but
\* unreaped children forked through the handle being destroyed: no other
\* process and no process group.
C19_DestructorTouchesOwnChildOnly ==
    lastOp.op = "~Process" => lastOp.others = {}
\* the stream split on the newline: every completed line, and a trailing
\* partial line that is not empty
RECURSIVE SplitNL(_, _)
SplitNL(stream, cur) ==
    IF stream = << >> THEN (IF cur # << >> THEN <<cur>> ELSE << >>)
    ELSE IF Head(stream) = NL THEN <<cur>> \o SplitNL(Tail(stream), << >>)
    ELSE SplitNL(Tail(stream), Append(cur, Head(stream)))
AllLines(stream) == SplitNL(stream, << >>)
NonEmptyLines(stream) == SelectSeq(AllLines(stream), LAMBDA l : l # << >>)
\* the bytes of a sequence of lines, in order
RECURSIVE Concat(_)
Concat(lines) == IF lines = << >> THEN << >> ELSE Head(lines) \o Concat(Tail(lines))
\* a stream without its newlines
NoNL(stream) == SelectSeq(stream, LAMBDA c : c # NL)

\* C12: a read() without expected prefix that ended by timeout or end-of-file
\* returns the bytes it took from the channel split on the newline, in order:
\* every completed line, the empty ones included, and a non-empty trailing
\* partial line last, however the bytes were fragmented.
C12_LinesAreTheSplitStream ==
    (rd.pc = "idle" /\ rd.end \in {"timeout", "eof"} /\ rd.expected = << >>) =>
        rd.out_lines = AllLines(rd.got)

\* C12 amended: such a read() returns the non-empty lines of the split, in
\* order: empty lines are dropped; a non-empty trailing partial line comes
\* last; the fragmentation makes no difference.
C12_LinesAreTheNonEmptySplit ==
    (rd.pc = "idle" /\ rd.end \in {"timeout", "eof"} /\ rd.expected = << >>) =>
        rd.out_lines = NonEmptyLines(rd.got)

C12_Witness ==
    /\ rd.pc = "idle" /\ rd.end \in {"timeout", "eof"} /\ rd.expected = << >>
    /\ rd.got = <<"a", NL, "b">>
    /\ rd.out_lines = << <<"a">>, <<"b">> >>

\* C13: a read() that ends by timeout returns true or false, never an error;
\* a pending partial line that is not empty is the last line it returns; and
\* when it took no byte from the channel it returns no line.
C13_TimeoutFlushesPartialLine ==
    (rd.pc = "idle" /\ rd.end = "timeout") =>
        /\ rd.ret \in {"true", "false"}
        /\ rd.curr_line # << >> =>
              /\ rd.out_lines # << >>
              /\ rd.out_lines[Len(rd.out_lines)] = rd.curr_line
        /\ rd.got = << >> => rd.out_lines = << >>

C13_Witness ==
    /\ rd.pc = "idle" /\ rd.end = "timeout"
    /\ rd.curr_line = <<"b">>
    /\ rd.out_lines = << <<"a">>, <<"b">> >>

\* C14: a read() called with a timeout T > 0 has waited at most T in all,
\* whatever the child writes and whenever.
C14_TotalWaitWithinTimeout ==
    rd.timeout_arg > 0 => rd.elapsed <= rd.timeout_arg

\* C15: the value a read() returns when it ends by end-of-file differs from the
\* value it returns when it ends by timeout, with or without an expected
\* prefix: the value returned is not the one the other ending returns.
C15_ClosedDiffersFromTimeout ==
    (rd.pc = "idle" /\ rd.end \in {"timeout", "eof"}) =>
        rd.ret # ReadRet(IF rd.end = "timeout" THEN "eof" ELSE "timeout", rd.expected)

\* C15 amended: without an expected prefix read() returns true on timeout and
\* false on end-of-file; with an expected prefix it returns false on both, and
\* the value does not tell them apart.
C15_ClosedDiffersWithoutPrefix ==
    (rd.pc = "idle" /\ rd.end \in {"timeout", "eof"}) =>
        /\ rd.expected = << >> => rd.ret = (IF rd.end = "timeout" THEN "true" ELSE "false")
        /\ rd.expected # << >> => rd.ret = "false"

C15_Witness ==
    /\ rd.pc = "idle" /\ rd.end = "eof" /\ rd.expected = << >>
    /\ rd.ret = "false"
    /\ rd.got # << >>

\* C20: the lines a read() returns hold every byte the call took from the
\* channel but the newlines, each once and in order; curr_line and the buffer
\* are locals, so no byte reaches a later call.
C20_NoByteLost ==
    (rd.pc = "idle" /\ rd.end \in {"timeout", "eof", "match"}) =>
        Concat(rd.out_lines) = NoNL(rd.got)
\* C16: round trip: when a freshly started echoing child is sent a non-empty
\* line L without newline by send_command and read() is then called with a
\* timeout longer than the child's response time, read() returns exactly one
\* line, and it is L.
C16_RoundTrip ==
    (/\ rd.pc = "idle" /\ rd.end # "none"
     /\ rd.cmd # << >>
     /\ \A i \in 1..Len(rd.cmd) : rd.cmd[i] # NL) =>
        rd.out_lines = <<rd.cmd>>
====
